---- MODULE Spec2Model ----
(***************************************************************************)
(* ChartPanel of src/chart.py: a rolling window of candles (self.data, a   *)
(* deque with maxlen) seeded by a snapshot fetch running on its own thread *)
(* and updated by on_message running on the thread of each websocket       *)
(* connection, drawn by draw_chart on the Tk main loop.                    *)
(*                                                                         *)
(* Execution contexts:                                                     *)
(*   main   the Tk main loop: stop, start_websocket, load_initial_data,    *)
(*          the callbacks queued with master.after, draw_chart;            *)
(*   fetch  one thread per load_initial_data call (run_fetch);             *)
(*   ws     one thread per WebSocketApp (run_forever calling on_message).  *)
(* A step of the model is one statement (or one run of statements that     *)
(* touch no shared state) of one context.                                  *)
(*                                                                         *)
(* A candle (open_time, O, H, L, C, V) is <<t, x>>: t the open_time, x the *)
(* five floats taken together.                                             *)
(*                                                                         *)
(* CryptoTicker of src/most_code.py: a connection thread whose on_message  *)
(* queues update_display for the main loop, which sets the two labels.     *)
(***************************************************************************)
EXTENDS Integers, Sequences, FiniteSets, TLC

\* Capacity of the window. The code has deque(maxlen=60) (chart.py:70); the
\* model runs with a smaller capacity so that the full window is reached.
MaxLen == 2
\* Largest open_time of a candle.
MaxTime == 3
\* Most update_display callbacks of the ticker queued at one time.
MaxQueue == 2

Times == 1..MaxTime
\* The frames the transports deliver in one run; frame n carries the values n.
Frames == {1, 2}
\* The connections start_websocket opens in one run, in this order.
Conns == {1, 2}
\* The calls of load_initial_data in one run; the constructor's is call 1.
Loads == {1, 2}
\* self.ws = None
None == 0
\* The prices the ticker's frames carry.
Prices == {1, 2}
\* CryptoTicker.ws holding its WebSocketApp.
TickerHandle == 1
\* The text of a label before the first update ("--,---", "--").
NoPrice == 0
\* The open_time of a frame lines 147-157 raise on: not JSON, no 'k' object,
\* a field missing, a price or the volume not a number.
Malformed == 0
\* msg[c] of a thread that is not inside on_message.
NoMsg == <<0, 0>>
\* applied[c] of a thread that is not between its write and its return.
NotApplied == [kind |-> "none", full |-> FALSE, old |-> NoMsg]

VARIABLES
    is_active,  \* self.is_active
    ws,         \* self.ws: None or the connection start_websocket created last
    data,       \* self.data, oldest first
    conn,       \* conn[c]: "none" (not created), "open", "lost" (the
                \* transport closed or failed), "closed" (by close())
    pc,         \* pc[c]: where the thread of connection c is in on_message
    msg,        \* msg[c]: the candle decoded from the frame c is handling
    applied,    \* applied[c], while c is between its write and its return:
                \* which case the write was, whether the window was full, and
                \* the last element the write found
    fpc,        \* fpc[f]: where the thread of the f-th load is in run_fetch
    draws,      \* draw_chart callbacks queued with master.after(0, ...)
    starts,     \* start_websocket callbacks queued with master.after(100, ...),
                \* oldest first: for each, how many queued draw_chart callbacks
                \* were queued before it and so come due before it
    mainPc,     \* where the main loop is inside draw_chart ("idle": outside)
    rd1,        \* the window as line 175 read it (ohlc_data)
    rd2,        \* the window as line 176 read it (volumes)
    rd3,        \* the window as line 205 read it (all_timestamps_ms)
    nmsgs,      \* frames delivered so far
    closes,     \* closes[c]: calls of close() on connection c so far
    dropped,    \* dropped[c]: frames on_message of c gave up on by raising
    ticker_is_active,  \* CryptoTicker.is_active of the SOL ticker
    ticker_ws,         \* CryptoTicker.ws: None or TickerHandle
    ticker_pc,         \* where the ticker's connection thread is in on_message
    ticker_msg,        \* the price decoded from the frame it is handling
    ticker_queue,      \* the arguments of the update_display callbacks queued
                       \* with parent.after(0, ...), oldest first
    price_label,       \* the price price_label shows
    change_label,      \* the price whose change change_label shows
    update_skipped     \* the last update_display call returned at its guard

vars == <<is_active, ws, data, conn, pc, msg, applied, fpc, draws, starts, mainPc,
          rd1, rd2, rd3, nmsgs, closes, dropped,
          ticker_is_active, ticker_ws, ticker_pc, ticker_msg, ticker_queue,
          price_label, change_label, update_skipped>>

\* The state of the ChartPanel.
chartVars == <<is_active, ws, data, conn, pc, msg, applied, fpc, draws, starts,
               mainPc, rd1, rd2, rd3, nmsgs, closes, dropped>>
\* The state of the CryptoTicker.
tickerVars == <<ticker_is_active, ticker_ws, ticker_pc, ticker_msg, ticker_queue,
                price_label, change_label, update_skipped>>
wsVars == <<conn, pc, msg, applied, nmsgs>>
drawVars == <<mainPc, rd1, rd2, rd3>>

Time(c) == c[1]
Last(d) == d[Len(d)]

\* ------------------------------------------------------------------ deque

\* The last n elements of s.
LastN(s, n) == IF Len(s) <= n THEN s ELSE SubSeq(s, Len(s) - n + 1, Len(s))

\* A list in place of the deque: append never drops an element.
ListAppend(d, x) == Append(d, x)

\* deque.appendleft in place of append: the candle is put in front, and a
\* full deque drops its last element.
DequeAppendLeft(d, x) ==
    IF Len(d) < MaxLen THEN <<x>> \o d ELSE SubSeq(<<x>> \o d, 1, MaxLen)

\* deque.append on a deque with maxlen: a full deque drops its front element.
DequeAppend(d, x) == LastN(Append(d, x), MaxLen)

\* deque.extend on a deque with maxlen: appends one by one.
DequeExtend(d, ks) == LastN(d \o ks, MaxLen)

\* The candle is put behind the last element instead of in its place.
SetLastAppending(d, x) == LastN(Append(d, x), MaxLen)

\* self.data[-1] = x
SetLast(d, x) == [d EXCEPT ![Len(d)] = x]

\* ------------------------------------------------------------- snapshots

\* fetch_klines: the exchange's candles 1..k in ascending open_time, at most
\* `limit` of them; [] when the request or the decoding raised.
Snapshot(k) == [i \in 1..k |-> <<i, 0>>]
fetch_klines(limit) == { Snapshot(k) : k \in 0..limit }

Init ==
    /\ is_active = FALSE
    /\ ws = None
    /\ data = <<>>
    /\ conn = [c \in Conns |-> "none"]
    /\ pc = [c \in Conns |-> "idle"]
    /\ msg = [c \in Conns |-> NoMsg]
    /\ applied = [c \in Conns |-> NotApplied]
    /\ fpc = [f \in Loads |-> IF f = 1 THEN "run" ELSE "none"]
    /\ draws = 0
    /\ starts = <<>>
    /\ mainPc = "idle"
    /\ rd1 = <<>>
    /\ rd2 = <<>>
    /\ rd3 = <<>>
    /\ nmsgs = 0
    /\ closes = [c \in Conns |-> 0]
    /\ dropped = [c \in Conns |-> 0]
    /\ ticker_is_active = FALSE
    /\ ticker_ws = None
    /\ ticker_pc = "idle"
    /\ ticker_msg = NoPrice
    /\ ticker_queue = <<>>
    /\ price_label = NoPrice
    /\ change_label = NoPrice
    /\ update_skipped = FALSE

\* ----------------------------------------------------- fetch thread

\* run_fetch with `if klines:` guarding the write only: draw_chart and
\* start_websocket are queued whatever the fetch returned.
RunFetchAlwaysQueues(f) ==
    /\ fpc[f] = "run"
    /\ \E klines \in fetch_klines(MaxLen) :
         /\ data' = DequeExtend(data, klines)
         /\ fpc' = [fpc EXCEPT ![f] = IF klines # <<>> THEN "seeded"
                                                        ELSE "empty"]
    /\ draws' = draws + 1
    /\ starts' = Append(starts, draws + 1)
    /\ UNCHANGED <<is_active, ws, wsVars, drawVars>>
    /\ UNCHANGED <<closes, dropped, tickerVars>>

\* run_fetch with line 115 outside `if klines:`: start_websocket is queued
\* whatever the fetch returned.
RunFetchStartingAnyway(f) ==
    /\ fpc[f] = "run"
    /\ \E klines \in fetch_klines(MaxLen) :
         IF klines # <<>>
         THEN /\ data' = DequeExtend(data, klines)
              /\ draws' = draws + 1
              /\ starts' = Append(starts, draws + 1)
              /\ fpc' = [fpc EXCEPT ![f] = "seeded"]
         ELSE /\ UNCHANGED <<data, draws>>
              /\ starts' = Append(starts, draws)
              /\ fpc' = [fpc EXCEPT ![f] = "empty"]
    /\ UNCHANGED <<is_active, ws, wsVars, drawVars>>
    /\ UNCHANGED <<closes, dropped, tickerVars>>

\* run_fetch, lines 111-115, on the fetch thread: the fetch returns; a
\* non-empty result is written into the window, then draw_chart and
\* start_websocket are queued for the main loop. The two after() calls touch
\* only the queue, which no other step reads before running a callback, so
\* they are taken together with the write.
RunFetch(f) ==
    /\ fpc[f] = "run"
    /\ \E klines \in fetch_klines(MaxLen) :
         IF klines # <<>>
         THEN /\ data' = DequeExtend(data, klines)
              /\ draws' = draws + 1
              /\ starts' = Append(starts, draws + 1)
              /\ fpc' = [fpc EXCEPT ![f] = "seeded"]
         ELSE /\ UNCHANGED <<data, draws, starts>>
              /\ fpc' = [fpc EXCEPT ![f] = "empty"]
    /\ UNCHANGED <<is_active, ws, wsVars, drawVars>>
    /\ UNCHANGED <<closes, dropped, tickerVars>>

\* -------------------------------------------------- websocket threads

\* Connections created so far.
nconn == Cardinality({c \in Conns : conn[c] # "none"})

\* run_forever has read a frame from the open connection c and calls
\* on_message with it.
Recv(c) ==
    /\ conn[c] = "open"
    /\ pc[c] = "idle"
    /\ nmsgs + 1 \in Frames
    /\ \E t \in Times \cup {Malformed} :
         msg' = [msg EXCEPT ![c] = <<t, nmsgs + 1>>]
    /\ pc' = [pc EXCEPT ![c] = "called"]
    /\ nmsgs' = nmsgs + 1
    /\ UNCHANGED <<is_active, ws, data, conn, applied, fpc, draws, starts, drawVars>>
    /\ UNCHANGED <<closes, dropped, tickerVars>>

\* The transport of the open connection c closes or fails while run_forever
\* waits for a frame: on_error and on_close (lines 130-131) print, and
\* run_forever returns, which ends the thread.
ConnectionLost(c) ==
    /\ conn[c] = "open"
    /\ pc[c] = "idle"
    /\ conn' = [conn EXCEPT ![c] = "lost"]
    /\ UNCHANGED <<is_active, ws, data, pc, msg, applied, fpc, draws, starts,
                   drawVars, nmsgs, closes, dropped, tickerVars>>

\* on_message with a decoding that raises on nothing (dict.get with
\* defaults): a frame that cannot be decoded goes on to the write.
OnMessageCheckLenient(c) ==
    /\ pc[c] = "called"
    /\ IF is_active
       THEN /\ pc' = [pc EXCEPT ![c] = "test"]
            /\ msg' = msg
       ELSE /\ pc' = [pc EXCEPT ![c] = "idle"]
            /\ msg' = [msg EXCEPT ![c] = NoMsg]
    /\ UNCHANGED <<is_active, ws, data, conn, applied, fpc, draws, starts,
                   drawVars, nmsgs, closes, dropped, tickerVars>>

\* on_message, line 145: if not self.is_active: return
\* and lines 147-157, which decode the frame into new_candle or raise; the
\* exception leaves on_message, and run_forever waits for the next frame.
OnMessageCheck(c) ==
    /\ pc[c] = "called"
    /\ IF is_active /\ Time(msg[c]) # Malformed
       THEN /\ pc' = [pc EXCEPT ![c] = "test"]
            /\ msg' = msg
       ELSE /\ pc' = [pc EXCEPT ![c] = "idle"]
            /\ msg' = [msg EXCEPT ![c] = NoMsg]
    /\ dropped' = IF is_active /\ Time(msg[c]) = Malformed
                  THEN [dropped EXCEPT ![c] = dropped[c] + 1]
                  ELSE dropped
    /\ UNCHANGED <<is_active, ws, data, conn, applied, fpc, draws, starts,
                   drawVars, nmsgs, closes, tickerVars>>

\* The condition of line 159: self.data and kline['t'] == self.data[-1][0]
SameAsLast(d, m) == d # <<>> /\ Time(m) = Time(Last(d))

\* on_message, line 159: the branch is chosen.
OnMessageTest(c) ==
    /\ pc[c] = "test"
    /\ pc' = [pc EXCEPT ![c] = IF SameAsLast(data, msg[c]) THEN "replace"
                                                            ELSE "append"]
    /\ UNCHANGED <<is_active, ws, data, conn, msg, applied, fpc, draws, starts,
                   drawVars, nmsgs>>
    /\ UNCHANGED <<closes, dropped, tickerVars>>

\* on_message, line 160: self.data[-1] = new_candle
OnMessageReplace(c) ==
    /\ pc[c] = "replace"
    /\ data' = SetLast(data, msg[c])
    /\ applied' = [applied EXCEPT ![c] = [kind |-> "replace",
                                          full |-> Len(data) = MaxLen,
                                          old |-> Last(data)]]
    /\ pc' = [pc EXCEPT ![c] = "notify"]
    /\ UNCHANGED <<is_active, ws, conn, msg, fpc, draws, starts, drawVars, nmsgs>>
    /\ UNCHANGED <<closes, dropped, tickerVars>>

\* How the candle m stands to the window d it is appended to.
AppendKind(d, m) ==
    IF d = <<>> THEN "first"
    ELSE IF Time(m) > Time(Last(d)) THEN "newer"
    ELSE IF Time(m) < Time(Last(d)) THEN "stale"
    ELSE "same"

\* on_message, line 162: self.data.append(new_candle)
OnMessageAppend(c) ==
    /\ pc[c] = "append"
    /\ data' = DequeAppend(data, msg[c])
    /\ applied' = [applied EXCEPT ![c] = [kind |-> AppendKind(data, msg[c]),
                                          full |-> Len(data) = MaxLen,
                                          old |-> IF data = <<>> THEN NoMsg
                                                  ELSE Last(data)]]
    /\ pc' = [pc EXCEPT ![c] = "notify"]
    /\ UNCHANGED <<is_active, ws, conn, msg, fpc, draws, starts, drawVars, nmsgs>>
    /\ UNCHANGED <<closes, dropped, tickerVars>>

\* on_message, line 164: self.master.after(0, self.draw_chart)
OnMessageNotify(c) ==
    /\ pc[c] = "notify"
    /\ draws' = draws + 1
    /\ starts' = starts
    /\ pc' = [pc EXCEPT ![c] = "idle"]
    /\ applied' = [applied EXCEPT ![c] = NotApplied]
    /\ msg' = [msg EXCEPT ![c] = NoMsg]
    /\ UNCHANGED <<is_active, ws, data, conn, fpc, drawVars, nmsgs>>
    /\ UNCHANGED <<closes, dropped, tickerVars>>

\* ------------------------------------------------------------ main loop

\* start_websocket without line 121: a connection is opened whether or not
\* the panel is active.
start_websocket_unguarded ==
    /\ nconn + 1 \in Conns
    /\ is_active' = TRUE
    /\ ws' = nconn + 1
    /\ conn' = [conn EXCEPT ![nconn + 1] = "open"]

\* start_websocket, lines 121-134.
start_websocket ==
    IF is_active
    THEN UNCHANGED <<is_active, ws, conn>>
    ELSE /\ nconn + 1 \in Conns
         /\ is_active' = TRUE
         /\ ws' = nconn + 1
         /\ conn' = [conn EXCEPT ![nconn + 1] = "open"]

\* The application calls start_websocket().
StartWebsocket ==
    /\ mainPc = "idle"
    /\ start_websocket
    /\ UNCHANGED <<data, pc, msg, applied, fpc, draws, starts, drawVars, nmsgs>>
    /\ UNCHANGED <<closes, dropped, tickerVars>>

\* stop without line 141: the handle of the closed connection is kept.
StopKeepingHandle ==
    /\ mainPc = "idle"
    /\ is_active' = FALSE
    /\ IF ws # None
       THEN /\ conn' = [conn EXCEPT ![ws] = "closed"]
            /\ closes' = [closes EXCEPT ![ws] = closes[ws] + 1]
            /\ ws' = ws
       ELSE UNCHANGED <<conn, closes, ws>>
    /\ UNCHANGED <<data, pc, msg, applied, fpc, draws, starts, drawVars, nmsgs,
                   dropped, tickerVars>>

\* stop, lines 138-141.
Stop ==
    /\ mainPc = "idle"
    /\ is_active' = FALSE
    /\ IF ws # None
       THEN /\ conn' = [conn EXCEPT ![ws] = "closed"]
            /\ closes' = [closes EXCEPT ![ws] = closes[ws] + 1]
            /\ ws' = None
       ELSE UNCHANGED <<conn, closes, ws>>
    /\ UNCHANGED <<data, pc, msg, applied, fpc, draws, starts, drawVars, nmsgs,
                   dropped, tickerVars>>

\* load_initial_data, line 117, called again by the application: a new
\* fetch thread is started.
LoadInitialData ==
    /\ mainPc = "idle"
    /\ \E f \in Loads :
         /\ fpc[f] = "none"
         /\ \A g \in Loads : g < f => fpc[g] \in {"seeded", "empty"}
         /\ fpc' = [fpc EXCEPT ![f] = "run"]
    /\ UNCHANGED <<is_active, ws, data, wsVars, draws, starts, drawVars>>
    /\ UNCHANGED <<closes, dropped, tickerVars>>

\* The main loop runs a queued start_websocket: the oldest one, once every
\* draw_chart queued before it has run (timers run in the order they come due).
TkStart ==
    /\ mainPc = "idle"
    /\ starts # <<>>
    /\ Head(starts) = 0
    /\ starts' = Tail(starts)
    /\ start_websocket
    /\ UNCHANGED <<data, pc, msg, applied, fpc, draws, drawVars, nmsgs>>
    /\ UNCHANGED <<closes, dropped, tickerVars>>

\* n lowered by one, not below 0.
Pred(n) == IF n > 0 THEN n - 1 ELSE 0

\* The main loop runs the oldest queued draw_chart: line 168,
\* if not self.is_active or not self.data: return
TkDraw ==
    /\ mainPc = "idle"
    /\ draws > 0
    /\ draws' = draws - 1
    /\ starts' = [i \in 1..Len(starts) |-> Pred(starts[i])]
    /\ mainPc' = IF is_active /\ data # <<>> THEN "ohlc" ELSE "idle"
    /\ UNCHANGED <<is_active, ws, data, wsVars, fpc, rd1, rd2, rd3>>
    /\ UNCHANGED <<closes, dropped, tickerVars>>

\* draw_chart, line 175: ohlc_data is read from self.data.
DrawOhlc ==
    /\ mainPc = "ohlc"
    /\ rd1' = data
    /\ mainPc' = "volumes"
    /\ UNCHANGED <<is_active, ws, data, wsVars, fpc, draws, starts, rd2, rd3>>
    /\ UNCHANGED <<closes, dropped, tickerVars>>

\* draw_chart, line 176: volumes is read from self.data.
DrawVolumes ==
    /\ mainPc = "volumes"
    /\ rd2' = data
    /\ mainPc' = "timestamps"
    /\ UNCHANGED <<is_active, ws, data, wsVars, fpc, draws, starts, rd1, rd3>>
    /\ UNCHANGED <<closes, dropped, tickerVars>>

\* draw_chart, line 205: all_timestamps_ms is read from self.data.
DrawTimestamps ==
    /\ mainPc = "timestamps"
    /\ rd3' = data
    /\ mainPc' = "canvas"
    /\ UNCHANGED <<is_active, ws, data, wsVars, fpc, draws, starts, rd1, rd2>>
    /\ UNCHANGED <<closes, dropped, tickerVars>>

\* draw_chart, line 230: self.canvas.draw(), and the call returns.
DrawCanvas ==
    /\ mainPc = "canvas"
    /\ mainPc' = "idle"
    /\ rd1' = <<>>
    /\ rd2' = <<>>
    /\ rd3' = <<>>
    /\ UNCHANGED <<is_active, ws, data, wsVars, fpc, draws, starts>>
    /\ UNCHANGED <<closes, dropped, tickerVars>>

\* What line 175 makes of its read, and lines 176 and 205 of theirs.
ohlc_data == [i \in 1..Len(rd1) |-> rd1[i][2]]
volumes == [i \in 1..Len(rd2) |-> rd2[i][2]]
all_timestamps_ms == [i \in 1..Len(rd3) |-> rd3[i][1]]

MainNext ==
    \/ StartWebsocket
    \/ Stop
    \/ LoadInitialData
    \/ TkStart
    \/ TkDraw
    \/ DrawOhlc
    \/ DrawVolumes
    \/ DrawTimestamps
    \/ DrawCanvas

FetchNext == \E f \in Loads : RunFetch(f)

WsNext ==
    \/ \E c \in Conns : Recv(c)
    \/ \E c \in Conns : ConnectionLost(c)
    \/ \E c \in Conns : OnMessageCheck(c)
    \/ \E c \in Conns : OnMessageTest(c)
    \/ \E c \in Conns : OnMessageReplace(c)
    \/ \E c \in Conns : OnMessageAppend(c)
    \/ \E c \in Conns : OnMessageNotify(c)

Next == MainNext \/ FetchNext \/ WsNext

\* ChartPanel under any use of its methods by the application: stop(),
\* start_websocket() and load_initial_data() called on the main loop at any
\* time.
Spec == Init /\ [][Next]_vars

\* ChartPanel as most_code.py uses it: constructed once (line 168), which
\* starts the one load, and stopped by on_closing (line 209); start_websocket
\* runs only as the callback run_fetch queued.
AppNext ==
    \/ Stop
    \/ TkStart
    \/ TkDraw
    \/ DrawOhlc
    \/ DrawVolumes
    \/ DrawTimestamps
    \/ DrawCanvas
    \/ FetchNext
    \/ WsNext

SpecApp == Init /\ [][AppNext]_vars

\* ------------------------------------------------------------- ticker
\* CryptoTicker of src/most_code.py, the SOL ticker that toggle_sol starts
\* and stops: its connection thread runs on_message, which queues
\* update_display for the main loop.

\* CryptoTicker.start, lines 37-51, called by toggle_sol (line 200).
TickerStart ==
    /\ mainPc = "idle"
    /\ IF ticker_is_active
       THEN UNCHANGED <<ticker_is_active, ticker_ws>>
       ELSE /\ ticker_is_active' = TRUE
            /\ ticker_ws' = TickerHandle
    /\ UNCHANGED <<ticker_pc, ticker_msg, ticker_queue, price_label,
                   change_label, update_skipped, chartVars>>

\* CryptoTicker.stop, lines 55-58, called by toggle_sol (line 193) and
\* on_closing (line 208).
TickerStop ==
    /\ mainPc = "idle"
    /\ ticker_is_active' = FALSE
    /\ ticker_ws' = None
    /\ UNCHANGED <<ticker_pc, ticker_msg, ticker_queue, price_label,
                   change_label, update_skipped, chartVars>>

\* run_forever of the ticker's connection has read a frame and calls
\* on_message with it.
TickerRecv ==
    /\ ticker_ws = TickerHandle
    /\ ticker_pc = "idle"
    /\ \E p \in Prices : ticker_msg' = p
    /\ ticker_pc' = "called"
    /\ UNCHANGED <<ticker_is_active, ticker_ws, ticker_queue, price_label,
                   change_label, update_skipped, chartVars>>

\* CryptoTicker.on_message, lines 62-68: if not self.is_active: return,
\* then the decoding.
TickerOnMessage ==
    /\ ticker_pc = "called"
    /\ IF ticker_is_active
       THEN /\ ticker_pc' = "queue"
            /\ ticker_msg' = ticker_msg
       ELSE /\ ticker_pc' = "idle"
            /\ ticker_msg' = NoPrice
    /\ UNCHANGED <<ticker_is_active, ticker_ws, ticker_queue, price_label,
                   change_label, update_skipped, chartVars>>

\* CryptoTicker.on_message, line 71:
\* self.parent.after(0, self.update_display, price, change, percent)
TickerQueue ==
    /\ ticker_pc = "queue"
    /\ Len(ticker_queue) < MaxQueue
    /\ ticker_queue' = Append(ticker_queue, ticker_msg)
    /\ ticker_pc' = "idle"
    /\ ticker_msg' = NoPrice
    /\ UNCHANGED <<ticker_is_active, ticker_ws, price_label, change_label,
                   update_skipped, chartVars>>

\* update_display without its guard (lines 75-76).
UpdateDisplayUnguarded ==
    /\ mainPc = "idle"
    /\ ticker_queue # <<>>
    /\ ticker_queue' = Tail(ticker_queue)
    /\ price_label' = Head(ticker_queue)
    /\ change_label' = Head(ticker_queue)
    /\ update_skipped' = ~ticker_is_active
    /\ UNCHANGED <<ticker_is_active, ticker_ws, ticker_pc, ticker_msg, chartVars>>

\* The main loop runs the oldest queued update_display, lines 75-85.
UpdateDisplay ==
    /\ mainPc = "idle"
    /\ ticker_queue # <<>>
    /\ ticker_queue' = Tail(ticker_queue)
    /\ IF ticker_is_active
       THEN /\ price_label' = Head(ticker_queue)
            /\ change_label' = Head(ticker_queue)
            /\ update_skipped' = FALSE
       ELSE /\ UNCHANGED <<price_label, change_label>>
            /\ update_skipped' = TRUE
    /\ UNCHANGED <<ticker_is_active, ticker_ws, ticker_pc, ticker_msg, chartVars>>

TickerNext ==
    \/ TickerStart
    \/ TickerStop
    \/ TickerRecv
    \/ TickerOnMessage
    \/ TickerQueue
    \/ UpdateDisplay

\* The dashboard of most_code.py: the chart panel as the application uses it
\* and the ticker.
DashNext == AppNext \/ TickerNext

SpecDash == Init /\ [][DashNext]_vars

\* ChartPanel as most_code.py uses it, with the application also calling
\* load_initial_data() again after a load that has returned.
RetryNext == AppNext \/ LoadInitialData

SpecRetry == Init /\ [][RetryNext]_vars

\* ------------------------------------------------------------ properties

TypeOK ==
    /\ is_active \in BOOLEAN
    /\ ws \in Conns \cup {None}
    /\ Len(data) <= MaxLen
    /\ \A c \in Conns : conn[c] \in {"none", "open", "lost", "closed"}
    /\ \A c \in Conns :
         pc[c] \in {"idle", "called", "test", "replace", "append", "notify"}
    /\ \A f \in Loads : fpc[f] \in {"none", "run", "seeded", "empty"}
    /\ mainPc \in {"idle", "ohlc", "volumes", "timestamps", "canvas"}
    /\ draws \in Nat
    /\ nmsgs \in Nat
    /\ \A c \in Conns : closes[c] \in Nat /\ dropped[c] \in Nat
    /\ ticker_is_active \in BOOLEAN
    /\ ticker_ws \in {None, TickerHandle}
    /\ ticker_pc \in {"idle", "called", "queue"}
    /\ ticker_msg \in Prices \cup {NoPrice}
    /\ Len(ticker_queue) <= MaxQueue
    /\ price_label \in Prices \cup {NoPrice}
    /\ change_label = price_label
    /\ update_skipped \in BOOLEAN

\* open_time strictly increasing across adjacent elements of d.
StrictlyIncreasing(d) ==
    \A i \in 1..(Len(d) - 1) : Time(d[i]) < Time(d[i + 1])

\* A snapshot has been written into the window.
Seeded == \E f \in Loads : fpc[f] = "seeded"

\* The thread of c has just written its candle and not yet returned.
Wrote(c, kind) == pc[c] = "notify" /\ applied[c].kind = kind

\* C1: in every reachable state the window is strictly increasing by
\* open_time across adjacent elements, so no two elements share an open_time.
C1_WindowStrictlyIncreasing == StrictlyIncreasing(data)

\* C2: an observation whose open_time is less than that of the last element
\* of a non-empty window is discarded: the step of on_message that handles it
\* leaves the window as it was.
C2_StaleDiscarded ==
    [][\A c \in Conns :
         (OnMessageAppend(c) /\ AppendKind(data, msg[c]) = "stale")
            => data' = data]_vars

\* C3: the window never holds more than MaxLen candles, and appending a
\* candle with a greater open_time to a full window drops exactly the front
\* element and keeps the others in order, followed by the new candle.
C3_CapacityAndEviction ==
    /\ [](Len(data) <= MaxLen)
    /\ [][\A c \in Conns :
            (OnMessageAppend(c) /\ Len(data) = MaxLen
                /\ AppendKind(data, msg[c]) = "newer")
               => data' = Tail(data) \o <<msg[c]>>]_vars

\* C3, witness: a connection thread has just appended a newer candle to a
\* full window, and it is the last element of the still full window.
C3_Witness ==
    \E c \in Conns :
        /\ Wrote(c, "newer")
        /\ applied[c].full
        /\ Len(data) = MaxLen
        /\ Last(data) = msg[c]

\* C4: an observation whose open_time equals that of the last element takes
\* the replace branch, and the replace changes the last element only: the
\* length and every element before the last stay, and the last element
\* becomes the observation (so of two in a row the second one stays).
C4_ReplaceLast ==
    [][\A c \in Conns :
         /\ (OnMessageTest(c) /\ SameAsLast(data, msg[c]))
               => pc'[c] = "replace"
         /\ OnMessageReplace(c)
               => /\ Len(data') = Len(data)
                  /\ \A i \in 1..(Len(data) - 1) : data'[i] = data[i]
                  /\ Last(data') = msg[c]]_vars

\* C4, witness: two observations with the same open_time in a row: the
\* second frame has just replaced the candle of the first frame, which was
\* the last element of a window of two or more candles, and is now the last
\* element, behind the snapshot's first candle.
C4_Witness ==
    \E c \in Conns :
        /\ Wrote(c, "replace")
        /\ msg[c][2] = 2
        /\ applied[c].old = <<Time(msg[c]), 1>>
        /\ Len(data) >= 2
        /\ data[1] = <<1, 0>>
        /\ Last(data) = msg[c]

\* C5: once stop() has closed a connection and start_websocket has opened a
\* new one, an observation of the closed connection that reaches the
\* is_active test of on_message is rejected.
C5_OldConnectionRejected ==
    [][\A c \in Conns :
         (OnMessageCheck(c) /\ conn[c] = "closed" /\ ws # None /\ ws # c)
            => pc'[c] = "idle"]_vars

\* C6: no live connection is opened, and no observation changes the window,
\* before a snapshot has been written into it; and an observation that
\* reaches the is_active test of on_message while is_active is false is
\* rejected and leaves the window as it was.
C6_SnapshotGate ==
    /\ []((\E c \in Conns : conn[c] # "none") => Seeded)
    /\ [][\A c \in Conns :
            /\ (OnMessageReplace(c) \/ OnMessageAppend(c)) => Seeded
            /\ (OnMessageCheck(c) /\ ~is_active)
                  => (pc'[c] = "idle" /\ data' = data)]_vars

\* C6, witness: the connection was opened after the seed, and its thread has
\* just written an observation into the seeded window.
C6_Witness ==
    /\ Seeded
    /\ \E c \in Conns : conn[c] = "open" /\ pc[c] = "notify"

\* C7: no observation is written into the window while is_active is false,
\* whatever the interleaving of stop() with a running on_message.
C7_NoMergeAfterStop ==
    [][\A c \in Conns :
         (OnMessageReplace(c) \/ OnMessageAppend(c)) => is_active]_vars

\* C8: every step that changes the window is a step of the main loop.
C8_MutationsOnMainLoop == [][data' # data => MainNext]_vars

\* C9: when draw_chart reaches canvas.draw(), its three reads of the window
\* (OHLC values, volumes, timestamps) were reads of one and the same window.
C9_ConsistentReads == mainPc = "canvas" => (rd1 = rd2 /\ rd2 = rd3)

\* C10: an observation queues one draw_chart when it was applied as the first
\* candle, as a replace of the last or as a newer candle, and none when it
\* was stale or was rejected because the panel is inactive.
C10_OneNotificationPerApply ==
    [][\A c \in Conns :
         /\ OnMessageNotify(c)
               => /\ applied[c].kind \in {"first", "replace", "newer"}
                  /\ draws' = draws + 1
         /\ (OnMessageCheck(c) /\ ~is_active)
               => (draws' = draws /\ pc'[c] = "idle")]_vars

\* C11: stop() called when the panel is already stopped changes nothing (the
\* state stays the one the first call left: is_active false, no connection
\* handle, the same window), close() is called at most once on any
\* connection, and start_websocket() called while the panel is active
\* creates no connection and no thread and leaves flag and handle alone.
C11_StartStopIdempotent ==
    /\ [](\A c \in Conns : closes[c] <= 1)
    /\ [][/\ Stop => (~is_active' /\ ws' = None /\ data' = data)
          /\ (Stop /\ ~is_active /\ ws = None) => UNCHANGED vars
          /\ ((StartWebsocket \/ TkStart) /\ is_active)
                => UNCHANGED <<is_active, ws, conn, pc, data>>]_vars

\* C11, witness: stop() has closed the connection of an active panel with a
\* seeded window and left the state in which a second stop() runs.
C11_Witness ==
    /\ ~is_active
    /\ ws = None
    /\ data # <<>>
    /\ \E c \in Conns : conn[c] = "closed" /\ closes[c] = 1

\* C12: as long as every fetch has failed or returned no candle, the window
\* is empty, the panel is inactive, no connection exists and no draw_chart
\* or start_websocket is queued; run_fetch returns normally whatever the
\* fetch did, and changes nothing when it got no candle; and a load that
\* then returns candles writes them into the empty window and queues
\* draw_chart and start_websocket, which activates the panel when it runs.
C12_EmptyFetchLeavesIdle ==
    /\ [](~Seeded => /\ data = <<>>
                     /\ ~is_active
                     /\ ws = None
                     /\ \A c \in Conns : conn[c] = "none"
                     /\ draws = 0
                     /\ starts = <<>>)
    /\ [][\A f \in Loads :
            RunFetch(f) =>
               /\ fpc'[f] \in {"seeded", "empty"}
               /\ fpc'[f] = "empty"
                     => UNCHANGED <<data, is_active, ws, conn, draws, starts>>
               /\ (fpc'[f] = "seeded" /\ ~Seeded)
                     => /\ data' \in fetch_klines(MaxLen) \ {<<>>}
                        /\ draws' = 1
                        /\ starts' = <<1>>]_vars
    /\ [][(TkStart /\ ~is_active) => (is_active' /\ conn'[ws'] = "open")]_vars

\* C12, witness: the first fetch returned nothing, the retried load seeded
\* the window, and the start_websocket it queued has opened the connection.
C12_Witness ==
    /\ fpc[1] = "empty"
    /\ fpc[2] = "seeded"
    /\ data # <<>>
    /\ is_active
    /\ conn[1] = "open"

\* C13: when the application starts the panel again after a stop(), by the
\* load_initial_data() that seeds and then connects, the new run begins with
\* an empty window: no candle the window held before the stop is in it
\* while the new snapshot has not arrived.
C13_FreshWindowOnRestart ==
    [][(LoadInitialData /\ ~is_active /\ (\E c \in Conns : conn[c] = "closed"))
         => data' = <<>>]_vars
\* C14: a frame that cannot be decoded, handled by on_message while the
\* panel is active, is dropped: the window, the flag, the handle and the
\* queued callbacks are unchanged, the connection is neither closed nor
\* lost, and its thread is back waiting for the next frame.
C14_MalformedDropped ==
    [][\A c \in Conns :
         (OnMessageCheck(c) /\ is_active /\ Time(msg[c]) = Malformed)
            => /\ UNCHANGED <<data, is_active, ws, draws, starts, conn, closes>>
               /\ pc'[c] = "idle"
               /\ msg'[c] = NoMsg]_vars

\* C14, witness: a connection whose first frame could not be decoded and
\* was dropped is still open, and its thread has just written the second
\* frame, a newer candle, into the window.
C14_Witness ==
    \E c \in Conns :
        /\ dropped[c] = 1
        /\ conn[c] = "open"
        /\ Wrote(c, "newer")
        /\ msg[c][2] = 2
        /\ Last(data) = msg[c]

\* C15: when the transport of the live connection is lost without stop()
\* having been called, no connection is opened by that step; and in every
\* state where the connection held is lost (and the run has a connection
\* left to open), a call of start_websocket() opens a new connection.
C15_StartAfterLoss ==
    /\ [][\A c \in Conns :
            ConnectionLost(c) => (\A d \in Conns : conn'[d] # "open")]_vars
    /\ []((/\ mainPc = "idle"
           /\ ws # None
           /\ conn[ws] = "lost"
           /\ nconn + 1 \in Conns)
            => ENABLED (StartWebsocket /\ \E c \in Conns : conn'[c] = "open"))

\* C16: the draw_chart that run_fetch queued after seeding the window (the
\* one the queued start_websocket still waits behind) draws the seeded
\* window: it goes on to read the window instead of returning at its guard.
C16_SeedIsDrawn ==
    [][(TkDraw /\ starts # <<>> /\ Head(starts) = 1 /\ data # <<>>)
         => mainPc' = "ohlc"]_vars

\* C17: right after run_fetch has written a non-empty snapshot, the window
\* is that snapshot (its last MaxLen candles), whatever it held before.
C17_SeedReplacesWindow ==
    [][\A f \in Loads :
         (RunFetch(f) /\ fpc'[f] = "seeded")
            => data' \in fetch_klines(MaxLen)]_vars

\* The candles of d that live frames brought (a snapshot's carry the values
\* 0) stand in the order of their frames.
InDeliveryOrder(d) ==
    \A i, j \in 1..Len(d) :
        (i < j /\ d[i][2] > 0 /\ d[j][2] > 0) => d[i][2] < d[j][2]

\* C18: the frames of the connection take effect in the order the transport
\* delivered them: on_message is called with a frame only when the thread
\* has finished with the frame before it (its write and its notification),
\* and the candles the frames left in the window stand in the order of
\* delivery.
C18_AppliedInDeliveryOrder ==
    /\ [](InDeliveryOrder(data))
    /\ [][\A c \in Conns :
            Recv(c) => (pc[c] = "idle" /\ applied[c] = NotApplied
                        /\ msg[c] = NoMsg)]_vars

\* C18, witness: the connection delivered two frames, both were appended,
\* and the window holds the first frame's candle before the second's.
C18_Witness ==
    \E c \in Conns :
        /\ Wrote(c, "newer")
        /\ msg[c][2] = 2
        /\ Len(data) = 2
        /\ data[1][2] = 1
        /\ data[2] = msg[c]

\* C19: between the calls of start_websocket() and stop(), which run whole
\* on the main loop, is_active is true exactly when self.ws holds a
\* connection, the connection held has not been closed, and no connection
\* other than the one held is open.
C19_FlagAndHandleAgree ==
    /\ is_active <=> ws # None
    /\ ws # None => conn[ws] \in {"open", "lost"}
    /\ \A c \in Conns : conn[c] = "open" => ws = c

\* C19, witness: the panel was stopped and started again: the first
\* connection is closed and the second one is held and open.
C19_Witness ==
    /\ is_active
    /\ ws = 2
    /\ conn[1] = "closed"
    /\ conn[2] = "open"

====
